---- MODULE Spec2Model ----
(***************************************************************************)
(* The simulation core of the Sky Dash game: the useGamePhysics hook, the  *)
(* physics and collision utilities, the high-score storage and the tap     *)
(* dispatch of GameScreen.                                                 *)
(*                                                                         *)
(* Numbers.  The source computes in floating point with values that are    *)
(* multiples of 0.1 (gravity 0.5, start height 333.5, gap centre 133.4).   *)
(* Every length, velocity and angle of the model is the source value times *)
(* ten, an integer: GRAVITY 0.5 is 5, JUMP_VELOCITY -8 is -80, a rotation  *)
(* of -20 degrees is -200.  Scores and frame counts are not scaled.        *)
(***************************************************************************)
EXTENDS Integers, Sequences, FiniteSets, TLC

\* ------------------------------------------------------------------ bounds
\* Frames one run may take under Spec, where every command may be issued in
\* every state.
ShortFrames == 32
\* Frames one run may take under SpecPlay, the game as GameScreen drives it.
MaxFrames == 372
\* Calls of resetGame that may wait for the storage at the same time.
MaxPending == 2

\* --------------------------------------------------------------- constants
\* utils/physics.ts: Dimensions.get('window'), read once when the module is
\* loaded; nothing in the program looks at the values before using them.
VARIABLE window

SCREEN_WIDTH == window.width
SCREEN_HEIGHT == window.height
GROUND_HEIGHT == 1000
GRAVITY == 5
JUMP_VELOCITY == -80
TERMINAL_VELOCITY == 100
PIPE_SPEED == 20
PIPE_GAP == 2000
BIRD_WIDTH == 320
BIRD_HEIGHT == 240
PIPE_WIDTH == 520

\* The value parseInt gives for a text that starts with no digit.  Scores are
\* never negative, so -1 stands for NaN; every comparison goes through Gt.
NaN == -1

Min(a, b) == IF a < b THEN a ELSE b
Max(a, b) == IF a > b THEN a ELSE b

\* a > b of JavaScript numbers: false as soon as one side is NaN.
Gt(a, b) == a # NaN /\ b # NaN /\ a > b

\* ------------------------------------------------------- utils/physics.ts
calculateBirdRotation(velocity) == Min(Max(velocity * 3, -200), 450)

minGapY == (SCREEN_HEIGHT * 2) \div 10
maxGapY == (SCREEN_HEIGHT * 8) \div 10

\* Math.random() is in [0, 1): gapY ranges over [minGapY, maxGapY).  The model
\* draws it from the middle of the screen and the greatest value of the grid.
GapCentres == {SCREEN_HEIGHT \div 2, maxGapY - 1}

\* A generateRandomPipeHeight that forgets the ground under the bottom pipe.
generateRandomPipeHeightNoGround(gapY) ==
    [topHeight |-> gapY - PIPE_GAP \div 2,
     bottomHeight |-> SCREEN_HEIGHT - gapY - PIPE_GAP \div 2]

generateRandomPipeHeight(gapY) ==
    [topHeight |-> gapY - PIPE_GAP \div 2,
     bottomHeight |-> SCREEN_HEIGHT - gapY - PIPE_GAP \div 2 - GROUND_HEIGHT]

\* An isOffScreen that is true at the threshold itself.
isOffScreenInclusive(x) == x <= -PIPE_WIDTH

isOffScreen(x) == x < -PIPE_WIDTH

\* A shouldGenerateNewPipe that is true at the threshold itself.
shouldGenerateNewPipeInclusive(lastPipeX) == lastPipeX <= SCREEN_WIDTH - 1800

\* A shouldGenerateNewPipe with half the spawn threshold.
shouldGenerateNewPipeNear(lastPipeX) == lastPipeX < SCREEN_WIDTH - 900

shouldGenerateNewPipe(lastPipeX) == lastPipeX < SCREEN_WIDTH - 1800

\* ----------------------------------------------------- utils/collision.ts
createCollisionBox(x, y, width, height) ==
    [x |-> x, y |-> y, width |-> width, height |-> height]

\* A checkAABBCollision that counts touching boxes as colliding.
checkAABBCollisionClosed(box1, box2) ==
    /\ box1.x <= box2.x + box2.width
    /\ box1.x + box1.width >= box2.x
    /\ box1.y <= box2.y + box2.height
    /\ box1.y + box1.height >= box2.y

checkAABBCollision(box1, box2) ==
    /\ box1.x < box2.x + box2.width
    /\ box1.x + box1.width > box2.x
    /\ box1.y < box2.y + box2.height
    /\ box1.y + box1.height > box2.y

getBirdCollisionBox(b) ==
    LET padding == 20
    IN  createCollisionBox(b.x + padding, b.y + padding,
                           BIRD_WIDTH - padding * 2, BIRD_HEIGHT - padding * 2)

getPipeCollisionBoxes(pipe) ==
    LET topPipe == createCollisionBox(pipe.x, 0, PIPE_WIDTH, pipe.topHeight)
        bottomPipe ==
            createCollisionBox(pipe.x,
                               SCREEN_HEIGHT - pipe.bottomHeight - GROUND_HEIGHT,
                               PIPE_WIDTH, pipe.bottomHeight)
    IN  <<topPipe, bottomPipe>>

checkBirdPipeCollision(b, pipe) ==
    LET birdBox == getBirdCollisionBox(b)
        pipeBoxes == getPipeCollisionBoxes(pipe)
    IN  \E i \in 1..Len(pipeBoxes) : checkAABBCollision(birdBox, pipeBoxes[i])

\* Mutant: the bird's height is forgotten.
checkBirdGroundCollisionNoHeight(b) == b.y > SCREEN_HEIGHT - GROUND_HEIGHT

checkBirdGroundCollision(b) == b.y + BIRD_HEIGHT > SCREEN_HEIGHT - GROUND_HEIGHT

checkBirdCeilingCollision(b) == b.y < 0

\* Mutant: a pipe counts as passed once the bird's right edge reaches it.
checkBirdPassedPipeEarly(b, pipe) == ~pipe.passed /\ b.x + BIRD_WIDTH > pipe.x

checkBirdPassedPipe(b, pipe) == ~pipe.passed /\ b.x > pipe.x + PIPE_WIDTH

\* ------------------------------------------------------- utils/storage.ts
\* localStorage holds texts.  A text is a sequence of characters; the store is
\* a record saying whether the key is present and, if so, its text.
Digits == <<"0", "1", "2", "3", "4", "5", "6", "7", "8", "9">>

NoItem == [present |-> FALSE, text |-> <<>>]

Item(text) == [present |-> TRUE, text |-> text]

IsDigit(c) == \E d \in 1..10 : Digits[d] = c

DigitValue(c) == (CHOOSE d \in 1..10 : Digits[d] = c) - 1

\* Number.prototype.toString of a non-negative integer.
RECURSIVE toString(_)
toString(n) ==
    IF n < 10 THEN <<Digits[n + 1]>>
    ELSE Append(toString(n \div 10), Digits[(n % 10) + 1])

\* parseInt(text, 10): the value of the longest prefix of digits, NaN when the
\* text starts with no digit.
RECURSIVE parsePrefix(_, _, _)
parsePrefix(text, i, acc) ==
    IF i > Len(text) \/ ~IsDigit(text[i]) THEN acc
    ELSE parsePrefix(text, i + 1, acc * 10 + DigitValue(text[i]))

parseInt(text) ==
    IF Len(text) = 0 \/ ~IsDigit(text[1]) THEN NaN ELSE parsePrefix(text, 1, 0)

\* A getHighScore that parses whatever getItem gives, a missing key included.
getHighScoreNoDefault(store, readFails) ==
    IF readFails THEN 0 ELSE parseInt(store.text)

\* getHighScore: storedScore ? parseInt(storedScore, 10) : 0, and 0 when
\* reading throws.  A missing key and the empty text are falsy.
getHighScore(store, readFails) ==
    IF readFails THEN 0
    ELSE IF store.present /\ Len(store.text) > 0 THEN parseInt(store.text)
    ELSE 0

\* setHighScore: the store after writing; a throwing write is caught and
\* leaves the store as it was.
setHighScore(store, value, writeFails) ==
    IF writeFails THEN store ELSE Item(toString(value))

\* An updateHighScore that falls back to the value it read when the write fails.
updateHighScoreRollsBack(store, currentScore, readFails, writeFails) ==
    LET highScoreRead == getHighScore(store, readFails)
    IN  IF Gt(currentScore, highScoreRead)
        THEN [returned |-> IF writeFails THEN highScoreRead ELSE currentScore,
              store |-> setHighScore(store, currentScore, writeFails),
              read |-> highScoreRead,
              writes |-> <<currentScore>>]
        ELSE [returned |-> highScoreRead, store |-> store,
              read |-> highScoreRead, writes |-> <<>>]

\* An updateHighScore that writes and returns currentScore whatever is stored.
updateHighScoreNoCompare(store, currentScore, readFails, writeFails) ==
    [returned |-> currentScore,
     store |-> setHighScore(store, currentScore, writeFails),
     read |-> getHighScore(store, readFails),
     writes |-> <<currentScore>>]

\* updateHighScore: the value returned, the store left behind, the value
\* getHighScore gave it and the values it passed to setHighScore.
updateHighScore(store, currentScore, readFails, writeFails) ==
    LET highScoreRead == getHighScore(store, readFails)
    IN  IF Gt(currentScore, highScoreRead)
        THEN [returned |-> currentScore,
              store |-> setHighScore(store, currentScore, writeFails),
              read |-> highScoreRead,
              writes |-> <<currentScore>>]
        ELSE [returned |-> highScoreRead, store |-> store,
              read |-> highScoreRead, writes |-> <<>>]

\* ------------------------------------------------------------------- state
VARIABLES
    bird,           \* useState<BirdState>: x, y, velocity, rotation
    pipes,          \* useState<PipeState[]>: x, topHeight, bottomHeight, passed
    score,          \* useState(0)
    highScore,      \* useState(0), the cached best score
    gameState,      \* useState<GameState>('START')
    interval,       \* gameLoopRef: TRUE while the setInterval timer exists
    frameCount,     \* frameCountRef
    loopScore,      \* the score the timer callback's updateScore closes over
    stored,         \* localStorage under HIGH_SCORE_KEY
    loadPending,    \* the mount effect's getHighScore has not resolved yet
    pendingResets,  \* scores of the resetGame calls awaiting updateHighScore
    passedCount,    \* history: pipes marked passed since the last reset
    suspended,      \* history: <<bird, pipes, score>> at the pause, while PAUSED
    io,             \* history: the storage call the last step made
    op              \* history: the operation that made the last step

vars == <<window, bird, pipes, score, highScore, gameState, interval, frameCount,
          loopScore, stored, loadPending, pendingResets, passedCount, suspended,
          io, op>>

\* The storage call of a step: which function ran, its argument, what it read
\* and whether reading threw, what it asked to write and whether writing
\* threw, and the value its promise resolved to.
StorageCall(call, arg, read, readFailed, writes, writeFailed, returned) ==
    [call |-> call, arg |-> arg, read |-> read, readFailed |-> readFailed,
     writes |-> writes, writeFailed |-> writeFailed, returned |-> returned]

NoIO == StorageCall("none", 0, 0, FALSE, <<>>, FALSE, 0)

\* The bird of a new game: useState initialiser and resetGame.
InitialBird ==
    [x |-> (SCREEN_WIDTH * 2) \div 10, y |-> (SCREEN_HEIGHT * 5) \div 10,
     velocity |-> 0, rotation |-> 0]

\* PipeState.  The id field is a React list key built from the clock and
\* Math.random(); no operation reads it, and the model leaves it out.
NewPipe(x, gapY) ==
    LET h == generateRandomPipeHeight(gapY)
    IN  [x |-> x, topHeight |-> h.topHeight, bottomHeight |-> h.bottomHeight,
         passed |-> FALSE]

\* The 375 x 667 window of the specifications below.
PhoneWindow == [width |-> 3750, height |-> 6670]

\* The hook after its first render, in the window the module was loaded in.
MountedHook ==
    /\ bird = InitialBird
    /\ pipes = <<>>
    /\ score = 0
    /\ highScore = 0
    /\ gameState = "START"
    /\ interval = FALSE
    /\ frameCount = 0
    /\ loopScore = 0
    /\ loadPending = TRUE
    /\ pendingResets = <<>>
    /\ passedCount = 0
    /\ suspended = <<>>
    /\ io = NoIO
    /\ op = "mount"

\* The hook mounted on a device where no best score was ever saved.
Mounted ==
    /\ MountedHook
    /\ stored = NoItem

Init ==
    /\ window = PhoneWindow
    /\ Mounted

\* ------------------------------------------------------- the game loop
\* The effect on [gameState]: after a render in which gameState changed, the
\* old timer is cleared and, if the new state is PLAYING, a new timer is set
\* whose callback closes over that render's updateScore, hence its score.
\* Mutant: the old timer is never cleared.
GameLoopEffectNoClear(newGameState, renderScore) ==
    /\ interval' = (interval \/ newGameState = "PLAYING")
    /\ loopScore' = IF newGameState = "PLAYING" /\ newGameState # gameState
                    THEN renderScore ELSE loopScore

GameLoopEffect(newGameState, renderScore) ==
    IF newGameState = gameState
    THEN UNCHANGED <<interval, loopScore>>
    ELSE /\ interval' = (newGameState = "PLAYING")
         /\ loopScore' = IF newGameState = "PLAYING" THEN renderScore ELSE loopScore

\* An updateBird without the terminal-velocity clamp.
updateBirdNoClamp(prevBird) ==
    LET newVelocity == prevBird.velocity + GRAVITY
        newY == prevBird.y + newVelocity
        newRotation == calculateBirdRotation(newVelocity)
    IN  [prevBird EXCEPT !.y = newY, !.velocity = newVelocity,
                         !.rotation = newRotation]

\* An updateBird that moves the bird by the velocity it had before the step.
updateBirdOldVelocity(prevBird) ==
    LET newVelocity == Min(prevBird.velocity + GRAVITY, TERMINAL_VELOCITY)
        newY == prevBird.y + prevBird.velocity
        newRotation == calculateBirdRotation(newVelocity)
    IN  [prevBird EXCEPT !.y = newY, !.velocity = newVelocity,
                         !.rotation = newRotation]

updateBird(prevBird) ==
    LET newVelocity == Min(prevBird.velocity + GRAVITY, TERMINAL_VELOCITY)
        newY == prevBird.y + newVelocity
        newRotation == calculateBirdRotation(newVelocity)
    IN  [prevBird EXCEPT !.y = newY, !.velocity = newVelocity,
                         !.rotation = newRotation]

\* updatePipes: move, drop the off-screen pipes, add one at the right edge.
MovedPipes(prevPipes) ==
    LET moved == [i \in 1..Len(prevPipes) |->
                     [prevPipes[i] EXCEPT !.x = prevPipes[i].x - PIPE_SPEED]]
        Kept(pipe) == ~isOffScreen(pipe.x)
    IN  SelectSeq(moved, Kept)

NeedsNewPipe(updatedPipes) ==
    \/ Len(updatedPipes) = 0
    \/ shouldGenerateNewPipe(updatedPipes[Len(updatedPipes)].x)

\* An updatePipes that puts the new pipe at the front of the list.
updatePipesUnshift(prevPipes, gapY) ==
    LET updatedPipes == MovedPipes(prevPipes)
    IN  IF NeedsNewPipe(updatedPipes)
        THEN <<NewPipe(SCREEN_WIDTH, gapY)>> \o updatedPipes
        ELSE updatedPipes

updatePipes(prevPipes, gapY) ==
    LET updatedPipes == MovedPipes(prevPipes)
    IN  IF NeedsNewPipe(updatedPipes)
        THEN Append(updatedPipes, NewPipe(SCREEN_WIDTH, gapY))
        ELSE updatedPipes

\* checkCollisions: TRUE when it calls setGameState('GAME_OVER').
checkCollisions(currentBird, currentPipes) ==
    \/ checkBirdGroundCollision(currentBird)
    \/ checkBirdCeilingCollision(currentBird)
    \/ \E i \in 1..Len(currentPipes) :
           checkBirdPipeCollision(currentBird, currentPipes[i])

\* updateScore.  The callback reads bird and score from the render in which
\* the timer was set.  checkBirdPassedPipe reads only bird.x, which no
\* operation changes, so that bird and the current one agree; the score it
\* reads is loopScore.
NewlyPassed(closureBird, prevPipes) ==
    {i \in 1..Len(prevPipes) : checkBirdPassedPipe(closureBird, prevPipes[i])}

MarkPassed(closureBird, prevPipes) ==
    [i \in 1..Len(prevPipes) |->
        IF checkBirdPassedPipe(closureBird, prevPipes[i])
        THEN [prevPipes[i] EXCEPT !.passed = TRUE]
        ELSE prevPipes[i]]

updateScore(closureScore, closureBird, prevPipes, currentScore) ==
    LET newScore == closureScore + Cardinality(NewlyPassed(closureBird, prevPipes))
    IN  IF newScore # closureScore THEN newScore ELSE currentScore

\* One callback of the timer: updateBird, updatePipes, checkCollisions,
\* updateScore, each state updater applied to the result of the one before.
Tick(limit) ==
    /\ interval
    /\ frameCount < limit
    /\ \E gapY \in GapCentres :
        LET newBird == updateBird(bird)
            movedPipes == updatePipes(pipes, gapY)
            newGameState == IF checkCollisions(newBird, movedPipes)
                            THEN "GAME_OVER" ELSE gameState
        IN  /\ frameCount' = frameCount + 1
            /\ bird' = newBird
            /\ pipes' = MarkPassed(bird, movedPipes)
            /\ score' = updateScore(loopScore, bird, movedPipes, score)
            /\ passedCount' = passedCount + Cardinality(NewlyPassed(bird, movedPipes))
            /\ gameState' = newGameState
            /\ GameLoopEffect(newGameState, score')
    /\ op' = "tick"
    /\ UNCHANGED window
    /\ io' = NoIO
    /\ UNCHANGED <<highScore, stored, loadPending, pendingResets, suspended>>

\* ---------------------------------------------------------- the commands
\* Mutant: the check of gameState is missing.
jumpUnguarded ==
    /\ bird' = [bird EXCEPT !.velocity = JUMP_VELOCITY, !.rotation = -200]
    /\ op' = "jump"
    /\ UNCHANGED window
    /\ io' = NoIO
    /\ UNCHANGED <<pipes, score, highScore, gameState, interval, frameCount,
                   loopScore, stored, loadPending, pendingResets, passedCount,
                   suspended>>

\* Mutant: a jump made while the bird is rising adds to the climb.
jumpBoosts ==
    /\ IF gameState = "PLAYING"
       THEN bird' = [bird EXCEPT
                        !.velocity = Min(bird.velocity, 0) + JUMP_VELOCITY,
                        !.rotation = -200]
       ELSE UNCHANGED bird
    /\ op' = "jump"
    /\ UNCHANGED window
    /\ io' = NoIO
    /\ UNCHANGED <<pipes, score, highScore, gameState, interval, frameCount,
                   loopScore, stored, loadPending, pendingResets, passedCount,
                   suspended>>

\* Mutant: the jump adds to the velocity and derives the rotation from it.
jumpAccumulates ==
    /\ IF gameState = "PLAYING"
       THEN bird' = [bird EXCEPT
                        !.velocity = bird.velocity + JUMP_VELOCITY,
                        !.rotation = calculateBirdRotation(bird.velocity + JUMP_VELOCITY)]
       ELSE UNCHANGED bird
    /\ op' = "jump"
    /\ UNCHANGED window
    /\ io' = NoIO
    /\ UNCHANGED <<pipes, score, highScore, gameState, interval, frameCount,
                   loopScore, stored, loadPending, pendingResets, passedCount,
                   suspended>>

jump ==
    /\ IF gameState = "PLAYING"
       THEN bird' = [bird EXCEPT !.velocity = JUMP_VELOCITY, !.rotation = -200]
       ELSE UNCHANGED bird
    /\ op' = "jump"
    /\ UNCHANGED window
    /\ io' = NoIO
    /\ UNCHANGED <<pipes, score, highScore, gameState, interval, frameCount,
                   loopScore, stored, loadPending, pendingResets, passedCount,
                   suspended>>

\* Mutant: the first pipe is placed 200 left of the right edge.
startGameFirstPipeInside ==
    /\ gameState' = "PLAYING"
    /\ \E gapY \in GapCentres : pipes' = <<NewPipe(SCREEN_WIDTH - 2000, gapY)>>
    /\ GameLoopEffect("PLAYING", score)
    /\ suspended' = <<>>
    /\ op' = "start"
    /\ UNCHANGED window
    /\ io' = NoIO
    /\ UNCHANGED <<bird, score, highScore, frameCount, stored, loadPending,
                   pendingResets, passedCount>>

startGame ==
    /\ gameState' = "PLAYING"
    /\ \E gapY \in GapCentres : pipes' = <<NewPipe(SCREEN_WIDTH + 2000, gapY)>>
    /\ GameLoopEffect("PLAYING", score)
    /\ suspended' = <<>>
    /\ op' = "start"
    /\ UNCHANGED window
    /\ io' = NoIO
    /\ UNCHANGED <<bird, score, highScore, frameCount, stored, loadPending,
                   pendingResets, passedCount>>

\* The tail of resetGame, after the high score is settled.
\* A reset that forgets setScore(0).
ResetStateKeepsScore ==
    /\ bird' = InitialBird
    /\ pipes' = <<>>
    /\ score' = score
    /\ gameState' = "START"
    /\ frameCount' = 0
    /\ passedCount' = 0
    /\ suspended' = <<>>
    /\ GameLoopEffect("START", score)

ResetState ==
    /\ bird' = InitialBird
    /\ pipes' = <<>>
    /\ score' = 0
    /\ gameState' = "START"
    /\ frameCount' = 0
    /\ passedCount' = 0
    /\ suspended' = <<>>
    /\ GameLoopEffect("START", 0)

\* resetGame up to its await: with score > highScore it waits for
\* updateHighScore(score); otherwise it runs to its end at once.
resetGame ==
    /\ IF Gt(score, highScore)
       THEN /\ Len(pendingResets) < MaxPending
            /\ pendingResets' = Append(pendingResets, score)
            /\ UNCHANGED <<bird, pipes, score, gameState, interval, frameCount,
                           loopScore, passedCount, suspended>>
       ELSE /\ ResetState
            /\ UNCHANGED pendingResets
    /\ op' = "reset"
    /\ UNCHANGED window
    /\ io' = NoIO
    /\ UNCHANGED <<highScore, stored, loadPending>>

RemoveAt(s, i) == [j \in 1..(Len(s) - 1) |-> IF j < i THEN s[j] ELSE s[j + 1]]

\* resetGame after its await: updateHighScore has read and written the store,
\* its result becomes the cached best score and the state is reset.
resetGameResume ==
    /\ \E i \in 1..Len(pendingResets), readFails \in BOOLEAN, writeFails \in BOOLEAN :
        LET r == updateHighScore(stored, pendingResets[i], readFails, writeFails)
        IN  /\ highScore' = r.returned
            /\ stored' = r.store
            /\ pendingResets' = RemoveAt(pendingResets, i)
            /\ io' = StorageCall("updateHighScore", pendingResets[i], r.read,
                                 readFails, r.writes,
                                 r.writes # <<>> /\ writeFails, r.returned)
    /\ ResetState
    /\ op' = "resetDone"
    /\ UNCHANGED window
    /\ UNCHANGED loadPending

pauseGame ==
    /\ IF gameState = "PLAYING"
       THEN /\ gameState' = "PAUSED"
            /\ GameLoopEffect("PAUSED", score)
            /\ suspended' = <<bird, pipes, score>>
       ELSE UNCHANGED <<gameState, interval, loopScore, suspended>>
    /\ op' = "pause"
    /\ UNCHANGED window
    /\ io' = NoIO
    /\ UNCHANGED <<bird, pipes, score, highScore, frameCount, stored,
                   loadPending, pendingResets, passedCount>>

\* Mutant: the check of gameState is missing.
resumeGameUnguarded ==
    /\ gameState' = "PLAYING"
    /\ GameLoopEffect("PLAYING", score)
    /\ suspended' = <<>>
    /\ op' = "resume"
    /\ UNCHANGED window
    /\ io' = NoIO
    /\ UNCHANGED <<bird, pipes, score, highScore, frameCount, stored,
                   loadPending, pendingResets, passedCount>>

resumeGame ==
    /\ IF gameState = "PAUSED"
       THEN /\ gameState' = "PLAYING"
            /\ GameLoopEffect("PLAYING", score)
            /\ suspended' = <<>>
       ELSE UNCHANGED <<gameState, interval, loopScore, suspended>>
    /\ op' = "resume"
    /\ UNCHANGED window
    /\ io' = NoIO
    /\ UNCHANGED <<bird, pipes, score, highScore, frameCount, stored,
                   loadPending, pendingResets, passedCount>>

\* The mount effect: getHighScore resolves and its value is cached.
loadHighScore ==
    /\ loadPending
    /\ loadPending' = FALSE
    /\ \E readFails \in BOOLEAN :
        /\ highScore' = getHighScore(stored, readFails)
        /\ io' = StorageCall("getHighScore", 0, highScore', readFails, <<>>, FALSE,
                            highScore')
    /\ op' = "load"
    /\ UNCHANGED window
    /\ UNCHANGED <<bird, pipes, score, gameState, interval, frameCount,
                   loopScore, stored, pendingResets, passedCount, suspended>>

\* ------------------------------------------------------------- the player
\* The moments of a running game at which something other than the timer
\* happens (a tap, a pause, a storage call resolving): when the bird is at
\* rest or at the top of a jump, right after a jump, and when it falls at 7.5
\* a frame.
TapVelocities == {JUMP_VELOCITY, 0, 75}

EventPoint == gameState = "PLAYING" => bird.velocity \in TapVelocities

\* GameScreen.handleScreenPress: one tap, dispatched on the state.
handleScreenPress ==
    \/ gameState = "START" /\ startGame
    \/ gameState = "PLAYING" /\ EventPoint /\ jump
    \/ gameState = "GAME_OVER" /\ resetGame

\* GameScreen's GAME_OVER overlay: the "New Record!" text is rendered.
newRecordText ==
    gameState = "GAME_OVER" /\ score > 0 /\ score = highScore

\* ---------------------------------------------------------- specifications
\* The hook alone: every command may be called in every state.
Jump == EventPoint /\ jump

ShortTick == Tick(ShortFrames)

Next ==
    \/ ShortTick
    \/ Jump
    \/ startGame
    \/ resetGame
    \/ pauseGame
    \/ resumeGame
    \/ loadHighScore

Spec == Init /\ [][Next]_vars

\* The game as the screen drives it: taps go through handleScreenPress, the
\* timer ticks, the game may be paused and resumed, storage calls resolve.
LongTick == Tick(MaxFrames)

PausePlay == gameState = "PLAYING" /\ EventPoint /\ pauseGame

ResumePlay == gameState = "PAUSED" /\ resumeGame

LoadPlay == EventPoint /\ loadHighScore

NextPlay ==
    \/ LongTick
    \/ handleScreenPress
    \/ resetGameResume
    \/ PausePlay
    \/ ResumePlay
    \/ LoadPlay

SpecPlay == Init /\ [][NextPlay]_vars

\* ------------------------------------------------- one run, diving player
\* A single game on a course whose gaps all sit at the lowest gap centre
\* (the gap then reaches below the ground line), played by taps made while
\* the bird falls fast.  Such a player can drop onto the ground in the very
\* frame in which a pipe is passed.
DiveVelocities == {JUMP_VELOCITY, 50, 75, TERMINAL_VELOCITY}

DivePoint == bird.velocity \in DiveVelocities

LowGaps ==
    \A i \in 1..Len(pipes) :
        pipes[i].topHeight = generateRandomPipeHeight(maxGapY - 1).topHeight

DiveStart == gameState = "START" /\ startGame /\ LowGaps'

DiveTick == LongTick /\ LowGaps'

DiveJump == gameState = "PLAYING" /\ DivePoint /\ jump

NextDive ==
    \/ DiveTick
    \/ DiveStart
    \/ DiveJump

SpecDive == Init /\ [][NextDive]_vars

\* --------------------------------------------------- a player who never taps
\* The hook driven by a caller who never jumps and never pauses: startGame
\* is called while no game is running (the hook does not look at the state),
\* resetGame once a game is over.  While the state is PLAYING the timer set
\* by the game loop effect keeps firing, so a frame that can be taken is
\* eventually taken.
FallStart == gameState # "PLAYING" /\ frameCount < ShortFrames /\ startGame

FallReset == gameState = "GAME_OVER" /\ resetGame

NextFall ==
    \/ ShortTick
    \/ FallStart
    \/ FallReset
    \/ loadHighScore

SpecFall == Init /\ [][NextFall]_vars /\ WF_vars(ShortTick)

\* ------------------------------------------------------------ any window
\* The game as GameScreen drives it, in the window the module happens to be
\* loaded in: the phone's, or one whose width or height is zero or negative.
Windows ==
    {PhoneWindow,
     [width |-> 0, height |-> 6670],
     [width |-> -3750, height |-> 6670],
     [width |-> 3750, height |-> 0]}

InitAnyWindow ==
    /\ window \in Windows
    /\ Mounted

NextWindow ==
    \/ ShortTick
    \/ handleScreenPress
    \/ LoadPlay

SpecWindow == InitAnyWindow /\ [][NextWindow]_vars

\* ------------------------------------------------- the storage module alone
\* utils/storage.ts called directly, as its unit tests call it, on a device
\* whose localStorage may already hold a text under HIGH_SCORE_KEY: none, the
\* empty text, a number, or a text that is no number.  The hook is mounted
\* and idle; its mount effect may resolve at any moment.
StoredItems ==
    {NoItem, Item(<<>>), Item(<<"1", "0">>), Item(<<"3", "0">>),
     Item(<<"7", "x">>), Item(<<"i", "n", "v", "a", "l", "i", "d">>)}

\* The scores the storage functions are called with.
Scores == {0, 5, 10, 20, 30}

InitAnyStore ==
    /\ window = PhoneWindow
    /\ MountedHook
    /\ stored \in StoredItems

hookState == <<window, bird, pipes, score, highScore, gameState, interval,
               frameCount, loopScore, loadPending, pendingResets, passedCount,
               suspended>>

getHighScoreCall ==
    /\ \E readFails \in BOOLEAN :
        LET v == getHighScore(stored, readFails)
        IN  io' = StorageCall("getHighScore", 0, v, readFails, <<>>, FALSE, v)
    /\ op' = "getHighScore"
    /\ UNCHANGED <<hookState, stored>>

setHighScoreCall ==
    /\ \E s \in Scores, writeFails \in BOOLEAN :
        /\ stored' = setHighScore(stored, s, writeFails)
        /\ io' = StorageCall("setHighScore", s, 0, FALSE, <<s>>, writeFails, 0)
    /\ op' = "setHighScore"
    /\ UNCHANGED hookState

updateHighScoreCall ==
    /\ \E s \in Scores, readFails \in BOOLEAN, writeFails \in BOOLEAN :
        LET r == updateHighScore(stored, s, readFails, writeFails)
        IN  /\ stored' = r.store
            /\ io' = StorageCall("updateHighScore", s, r.read, readFails,
                                 r.writes, r.writes # <<>> /\ writeFails,
                                 r.returned)
    /\ op' = "updateHighScore"
    /\ UNCHANGED hookState

NextStorage ==
    \/ getHighScoreCall
    \/ setHighScoreCall
    \/ updateHighScoreCall
    \/ loadHighScore

SpecStorage == InitAnyStore /\ [][NextStorage]_vars

\* ------------------------------------------------------- a later session
\* The game as GameScreen drives it, mounted on a device where an earlier
\* session may have saved a best score of 10.
SavedItems == {NoItem, Item(<<"1", "0">>)}

InitSession ==
    /\ window = PhoneWindow
    /\ MountedHook
    /\ stored \in SavedItems

NextSession ==
    \/ LongTick
    \/ handleScreenPress
    \/ resetGameResume
    \/ LoadPlay

SpecSession == InitSession /\ [][NextSession]_vars

\* ------------------------------------------------------------ properties
\* The fields of the engine a command or a tick may touch.
engine == <<bird, pipes, score, highScore, gameState, interval, frameCount,
            loopScore, stored, pendingResets>>

\* The three collision queries in the words of the specification, on a player
\* b and a list of obstacles ps.
HitsGround(b) == b.y + BIRD_HEIGHT > SCREEN_HEIGHT - GROUND_HEIGHT

HitsCeiling(b) == b.y < 0

HitsObstacle(b, ps) ==
    LET left == b.x + 20
        right == b.x + BIRD_WIDTH - 20
        top == b.y + 20
        bottom == b.y + BIRD_HEIGHT - 20
    IN  \E i \in 1..Len(ps) :
            /\ left < ps[i].x + PIPE_WIDTH
            /\ right > ps[i].x
            /\ \/ top < ps[i].topHeight /\ bottom > 0
               \/ /\ top < SCREEN_HEIGHT - GROUND_HEIGHT
                  /\ bottom > SCREEN_HEIGHT - GROUND_HEIGHT - ps[i].bottomHeight

\* C1: a tick runs in PLAYING and ends in GAME_OVER exactly when, on the bird
\* and the pipes it leaves behind, the bird is below the ground line, above
\* the ceiling or inside a pipe segment; otherwise the game keeps PLAYING.  No
\* other operation enters GAME_OVER.
C1_GameOverIffCollision ==
    [][/\ op' = "tick" =>
            /\ gameState = "PLAYING"
            /\ gameState' = IF \/ HitsGround(bird')
                               \/ HitsCeiling(bird')
                               \/ HitsObstacle(bird', pipes')
                            THEN "GAME_OVER" ELSE "PLAYING"
       /\ (gameState # "GAME_OVER" /\ gameState' = "GAME_OVER") => op' = "tick"
      ]_vars

\* A tick has ended the game on a pipe, away from the ground and the ceiling.
C1_Witness ==
    /\ op = "tick"
    /\ gameState = "GAME_OVER"
    /\ HitsObstacle(bird, pipes)
    /\ ~HitsGround(bird)
    /\ ~HitsCeiling(bird)

\* C2: the current score equals the number of pipes marked passed since the
\* run started.
C2_ScoreCountsPassedPipes == score = passedCount

\* The pipe that is at place j after a step was at place j + dropped before it,
\* dropped being the number of pipes the step evicted; a pipe beyond the old
\* list was created by the step.
Dropped == Cardinality({i \in 1..Len(pipes) : pipes[i].x - PIPE_SPEED < -PIPE_WIDTH})

WasPassed(j) == j + Dropped <= Len(pipes) /\ pipes[j + Dropped].passed

\* C3: in every tick, a pipe is flagged passed exactly if it was flagged before
\* or the player is strictly beyond its right edge, and the score grows by one
\* for every pipe the tick flags.
C3_EachPassScoresOnce ==
    [][op' = "tick" =>
        /\ \A j \in 1..Len(pipes') :
              pipes'[j].passed <=>
                  (WasPassed(j) \/ bird.x > pipes'[j].x + PIPE_WIDTH)
        /\ score' = score + Cardinality({j \in 1..Len(pipes') :
                                            pipes'[j].passed /\ ~WasPassed(j)})
      ]_vars

\* C4: outside PLAYING the simulation is frozen: there is no timer, no step is
\* a tick, and only startGame, resetGame and resumeGame change the bird, the
\* pipes, the score or the game state.
C4_FrozenUnlessPlaying ==
    [][gameState # "PLAYING" =>
        /\ ~interval
        /\ op' # "tick"
        /\ \/ op' \in {"start", "reset", "resume"}
           \/ UNCHANGED <<bird, pipes, score, gameState, frameCount>>
      ]_vars

\* The game is paused after frames have run, and no timer exists.
C4_Witness == gameState = "PAUSED" /\ frameCount > 0 /\ ~interval /\ op = "pause"

\* C5: jump outside PLAYING changes no field of the engine.
C5_JumpIgnoredUnlessPlaying ==
    [][(op' = "jump" /\ gameState # "PLAYING") => UNCHANGED engine]_vars

\* jump was called after the game ended.
C5_Witness == op = "jump" /\ gameState = "GAME_OVER" /\ frameCount > 0

\* C6: jump in PLAYING sets the velocity to JUMP_VELOCITY and the rotation to
\* -20 degrees in that very step, and changes neither the position, the pipes,
\* the score nor the game state.
C6_JumpSetsVelocityAndRotation ==
    [][(op' = "jump" /\ gameState = "PLAYING") =>
        /\ bird'.velocity = -80
        /\ bird'.rotation = -200
        /\ bird'.x = bird.x
        /\ bird'.y = bird.y
        /\ UNCHANGED <<pipes, score, gameState>>
      ]_vars

\* jump was called in a running game whose bird has moved.
C6_Witness ==
    /\ op = "jump"
    /\ gameState = "PLAYING"
    /\ bird.y # InitialBird.y
    /\ bird.velocity = JUMP_VELOCITY

\* C7: startGame outside START changes neither the game state, the bird, the
\* pipes nor the score.
C7_StartIgnoredUnlessStart ==
    [][(op' = "start" /\ gameState # "START") =>
        UNCHANGED <<gameState, bird, pipes, score>>]_vars

\* C8: resetGame outside GAME_OVER changes neither the game state, the bird,
\* the pipes, the score, the cached nor the stored best score.
C8_ResetIgnoredUnlessGameOver ==
    [][(op' = "reset" /\ gameState # "GAME_OVER") =>
        UNCHANGED <<gameState, bird, pipes, score, highScore, stored>>]_vars

\* C9: pauseGame acts only in PLAYING and resumeGame only in PAUSED, each
\* changing nothing elsewhere; pausing keeps the bird, the pipes and the score,
\* and right after the resume they are what they were at the pause.
C9_PauseResumeReversible ==
    [][/\ op' = "pause" =>
            IF gameState = "PLAYING"
            THEN gameState' = "PAUSED" /\ UNCHANGED <<bird, pipes, score>>
            ELSE UNCHANGED engine
       /\ op' = "resume" =>
            IF gameState = "PAUSED"
            THEN gameState' = "PLAYING" /\ <<bird', pipes', score'>> = suspended
            ELSE UNCHANGED engine
      ]_vars

\* A game that had run some frames was paused and has just been resumed.
C9_Witness == op = "resume" /\ gameState = "PLAYING" /\ frameCount > 0 /\ interval

\* C10: startGame in START leaves the game PLAYING, the bird at the start
\* position with velocity 0, the score 0, and either no pipe or one pipe, not
\* passed, at or beyond the right edge of the screen.
C10_StartFromReady ==
    [][(op' = "start" /\ gameState = "START") =>
        /\ gameState' = "PLAYING"
        /\ bird'.x = (SCREEN_WIDTH * 2) \div 10
        /\ bird'.y = SCREEN_HEIGHT \div 2
        /\ bird'.velocity = 0
        /\ score' = 0
        /\ \/ pipes' = <<>>
           \/ /\ Len(pipes') = 1
              /\ ~pipes'[1].passed
              /\ pipes'[1].x >= SCREEN_WIDTH
      ]_vars

\* A game has just been started and no frame has run.
C10_Witness ==
    /\ op = "start"
    /\ gameState = "PLAYING"
    /\ frameCount = 0
    /\ bird = InitialBird
    /\ Len(pipes) = 1

\* A step that completes a resetGame called in GAME_OVER: the call that ran
\* to its end at once, or the continuation after updateHighScore.
ResetCompletes ==
    \/ op' = "reset" /\ gameState = "GAME_OVER" /\ ~Gt(score, highScore)
    \/ op' = "resetDone"

\* C11: when a reset from GAME_OVER has completed the state is START, the bird
\* is at its start position with velocity 0 and rotation 0, the pipe list is
\* empty and the score is 0, as before the first start; only the best score
\* may differ.
C11_ResetGivesFreshGame ==
    [][ResetCompletes =>
        /\ gameState' = "START"
        /\ bird'.x = SCREEN_WIDTH \div 5
        /\ bird'.y = SCREEN_HEIGHT \div 2
        /\ bird'.velocity = 0
        /\ bird'.rotation = 0
        /\ pipes' = <<>>
        /\ score' = 0
        /\ interval' = FALSE]_vars

C11_Witness ==
    /\ op = "resetDone"
    /\ gameState = "START"
    /\ pipes = <<>>
    /\ score = 0
    /\ highScore = 1

\* v is what reading the store gives: 0 when reading throws or nothing is
\* stored, otherwise the number whose decimal text is stored.
ReadsAs(store, readFailed, v) ==
    IF readFailed \/ ~store.present
    THEN v = 0
    ELSE v >= 0 /\ toString(v) = store.text

\* A resetGame that finds score <= highScore: no storage call, cache kept.
ResetWithoutRecord ==
    op' = "reset" /\ ~Gt(score, highScore) =>
        io'.call = "none" /\ io'.writes = <<>> /\ highScore' = highScore /\ stored' = stored

C14_LoadGivesStoredOrZero ==
    [][op' = "load" =>
        /\ io'.call = "getHighScore"
        /\ highScore' = io'.read
        /\ ReadsAs(stored, io'.readFailed, highScore')
        /\ stored' = stored
        /\ gameState' = gameState]_vars

C14_Witness ==
    /\ op = "load"
    /\ io.readFailed
    /\ stored.present
    /\ highScore = 0

\* C15: a frame never lowers the bird's velocity, so between jumps the
\* velocity is non-decreasing, and no state has a velocity above
\* TERMINAL_VELOCITY.
C15_FallSpeedMonotonicAndBounded ==
    [][/\ op' = "tick" => bird'.velocity >= bird.velocity
       /\ bird'.velocity <= TERMINAL_VELOCITY]_vars

C15_Witness ==
    /\ op = "tick"
    /\ gameState = "PLAYING"
    /\ bird.velocity = TERMINAL_VELOCITY
    /\ bird.y > InitialBird.y + 1050

\* C16: a frame takes velocity v and height y to v' = min(v + 0.5, 10),
\* y' = y + v' (the new velocity), rotation' = 3 * v' kept within
\* [-20, 45], and leaves x alone.
C16_PhysicsStep ==
    [][op' = "tick" =>
        LET v == bird.velocity + 5
            newV == IF v < 100 THEN v ELSE 100
            r == 3 * newV
        IN  /\ bird'.velocity = newV
            /\ bird'.y = bird.y + newV
            /\ bird'.rotation = IF r < -200 THEN -200 ELSE IF r > 450 THEN 450 ELSE r
            /\ bird'.x = bird.x]_vars

C16_Witness ==
    /\ op = "tick"
    /\ bird.velocity = -75
    /\ bird.rotation = -200
    /\ bird.y = InitialBird.y - 75

\* C17: a jump made right after a jump leaves the bird as the first jump
\* left it, and whatever the order of jumps and frames the velocity is never
\* below JUMP_VELOCITY.
C17_JumpsDoNotAccumulate ==
    [][/\ op = "jump" /\ op' = "jump" /\ gameState = "PLAYING" => bird' = bird
       /\ bird'.velocity >= JUMP_VELOCITY]_vars

C17_Witness ==
    /\ op = "jump"
    /\ gameState = "PLAYING"
    /\ bird.velocity = JUMP_VELOCITY
    /\ EventPoint
    /\ frameCount >= 1

\* The step passes a pipe: a pipe that was not marked passed is marked in
\* the list the step leaves.
PassesPipe ==
    \E i \in 1..Len(pipes), j \in 1..Len(pipes') :
        /\ pipes'[j].x = pipes[i].x - PIPE_SPEED
        /\ ~pipes[i].passed
        /\ pipes'[j].passed

\* C18: a frame in which the bird both passes a pipe and collides applies the
\* bird and pipe updates, adds the pass to the score and ends in GAME_OVER.
C18_PassAndDieBothRegister ==
    [][op' = "tick" /\ gameState = "PLAYING" /\ PassesPipe
       /\ checkCollisions(bird', pipes') =>
            /\ gameState' = "GAME_OVER"
            /\ bird' = updateBird(bird)
            /\ score' = score + 1]_vars

\* The pipes a frame keeps: those whose x, lowered by 2, is not below -52;
\* and the index in the old list of the k-th pipe kept.
KeptIndices == {i \in 1..Len(pipes) : pipes[i].x - 20 >= -520}

KeptIndex(k) ==
    CHOOSE i \in KeptIndices : Cardinality({j \in KeptIndices : j <= i}) = k

NearThreshold == {-540, -530, -521, -520, -519, -510, -500}

\* A pipe that a frame moves to x is kept exactly when x >= -52.
KeptAtThreshold ==
    \A x \in NearThreshold :
        LET gapY == SCREEN_HEIGHT \div 2
            left == MovedPipes(<<NewPipe(x + 20, gapY)>>)
        IN  IF x >= -520 THEN left = <<NewPipe(x, gapY)>> ELSE left = <<>>

\* C20: a frame lowers every pipe's x by 2 and drops exactly the pipes whose
\* new x is below -52, keeping the others in order and otherwise unchanged
\* (a pipe at exactly -52 is kept); so every pipe in the list has x >= -52.
C20_EvictionRule ==
    [][op' = "tick" =>
        LET n == Cardinality(KeptIndices)
        IN  /\ KeptAtThreshold
            /\ Len(pipes') >= n
            /\ \A k \in 1..n :
                    /\ pipes'[k].x = pipes[KeptIndex(k)].x - 20
                    /\ pipes'[k].topHeight = pipes[KeptIndex(k)].topHeight
                    /\ pipes'[k].bottomHeight = pipes[KeptIndex(k)].bottomHeight
            /\ \A j \in 1..Len(pipes') : pipes'[j].x >= -520]_vars

C20_Witness ==
    /\ op = "tick"
    /\ gameState = "PLAYING"
    /\ passedCount = 1
    /\ pipes # <<>>
    /\ \A i \in 1..Len(pipes) : ~pipes[i].passed

\* Every gap centre Math.random() can give, on the grid of tenths.
AllGapCentres == minGapY..(maxGapY - 1)

\* The two heights and the gap fill the screen above the ground.
FillsScreen(topHeight, bottomHeight) ==
    topHeight + 2000 + bottomHeight = 6670 - 1000

GeneratorFillsScreen ==
    \A gapY \in AllGapCentres :
        FillsScreen(generateRandomPipeHeight(gapY).topHeight,
                    generateRandomPipeHeight(gapY).bottomHeight)

\* C21: for every gap centre the generator can pick (tried whenever a game
\* starts), and so for every pipe in the list, topHeight + 200 +
\* bottomHeight = screen height - ground height; and no step changes the
\* heights of a pipe that stays in the list.
C21_GapInvariant ==
    [][/\ op' = "start" => GeneratorFillsScreen
       /\ \A j \in 1..Len(pipes') :
            /\ FillsScreen(pipes'[j].topHeight, pipes'[j].bottomHeight)
            /\ \/ pipes'[j].x >= 3750
               \/ \E i \in 1..Len(pipes) :
                    /\ pipes'[j].x \in {pipes[i].x, pipes[i].x - 20}
                    /\ pipes'[j].topHeight = pipes[i].topHeight
                    /\ pipes'[j].bottomHeight = pipes[i].bottomHeight]_vars

C21_Witness ==
    /\ op = "tick"
    /\ Len(pipes) = 2
    /\ pipes[1].x < 3750 - 1820
    /\ pipes[1].topHeight # pipes[2].topHeight

\* C22: every pipe the generator produces has topHeight > 0 and
\* bottomHeight > 0, so its gap lies between the top of the screen and the
\* ground line.
C22_ValidSegmentHeights ==
    \A i \in 1..Len(pipes) :
        /\ pipes[i].topHeight > 0
        /\ pipes[i].bottomHeight > 0
        /\ pipes[i].topHeight + 2000 <= 6670 - 1000

\* The list ps is in strictly increasing order of x.
OrderedByX(ps) == \A j \in 1..(Len(ps) - 1) : ps[j].x < ps[j + 1].x

\* The step drops the first d pipes of the list, moves the others, and adds
\* at most one pipe behind them.
DropsFromFront(d) ==
    /\ Len(pipes') \in {Len(pipes) - d, Len(pipes) - d + 1}
    /\ \A k \in 1..(Len(pipes) - d) :
            /\ pipes'[k].x = pipes[k + d].x - 20
            /\ pipes'[k].topHeight = pipes[k + d].topHeight

\* C23: the pipe list is always in strictly increasing order of x, oldest
\* first, and a frame removes pipes only from the front of the list; the
\* other operations leave the list alone, clear it or start a new one.
C23_OrderedList ==
    [][/\ OrderedByX(pipes')
       /\ IF op' = "tick"
          THEN \E d \in 0..Len(pipes) : DropsFromFront(d)
          ELSE pipes' = pipes \/ pipes' = <<>> \/ pipes = <<>>]_vars

C23_Witness ==
    /\ op = "tick"
    /\ Len(pipes) = 3
    /\ pipes[1].passed
    /\ pipes[1].x < 0

\* Two rectangles of positive size share area: on each axis the greater of
\* the two near edges lies strictly before the lesser of the two far edges.
ShareArea(a, b) ==
    /\ Max(a.x, b.x) < Min(a.x + a.width, b.x + b.width)
    /\ Max(a.y, b.y) < Min(a.y + a.height, b.y + b.height)

\* Squares of side 50 placed on a grid: apart, touching by an edge or a
\* corner, partly overlapping, equal.
SampleBoxes ==
    {createCollisionBox(x, y, 500, 500) : x \in {0, 250, 500, 600}, y \in {0, 250, 500, 600}}

SampleBoxesAgree ==
    \A a \in SampleBoxes, b \in SampleBoxes :
        /\ checkAABBCollision(a, b) = ShareArea(a, b)
        /\ checkAABBCollision(a, b) = checkAABBCollision(b, a)

\* The boxes of the pipes in the list that have a positive height.
PipeBoxes ==
    {getPipeCollisionBoxes(pipes[i])[k] : i \in 1..Len(pipes), k \in 1..2}

SolidPipeBoxes == {box \in PipeBoxes : box.height > 0}

\* C24: checkAABBCollision is true exactly when the two rectangles share
\* area, so rectangles that only touch by an edge or a corner do not
\* collide ({0,0,50,50} with {50,0,50,50}: no; with {25,25,50,50}: yes),
\* and swapping the arguments gives the same answer.  Checked on the sample
\* squares and on the bird's box against every pipe box of every state.
C24_AABBOpenBoundary ==
    /\ SampleBoxesAgree
    /\ ~checkAABBCollision(createCollisionBox(0, 0, 500, 500),
                           createCollisionBox(500, 0, 500, 500))
    /\ ~checkAABBCollision(createCollisionBox(0, 0, 500, 500),
                           createCollisionBox(500, 500, 500, 500))
    /\ checkAABBCollision(createCollisionBox(0, 0, 500, 500),
                          createCollisionBox(250, 250, 500, 500))
    /\ \A box \in SolidPipeBoxes :
            /\ checkAABBCollision(getBirdCollisionBox(bird), box)
                    = ShareArea(getBirdCollisionBox(bird), box)
            /\ checkAABBCollision(getBirdCollisionBox(bird), box)
                    = checkAABBCollision(box, getBirdCollisionBox(bird))

\* The bird's box touches the left edge of the first pipe's top box, beside
\* it and not below it, and the game goes on.
C24_Witness ==
    /\ op = "tick"
    /\ gameState = "PLAYING"
    /\ Len(pipes) = 2
    /\ getBirdCollisionBox(bird).x + getBirdCollisionBox(bird).width = pipes[1].x
    /\ getBirdCollisionBox(bird).y < pipes[1].topHeight

\* The bird after n frames of free fall from the start position: velocity
\* 0.5 n and height 0.5 + 1.0 + ... + 0.5 n below the start.
FreeFallAt(b, n) ==
    /\ b.velocity = 5 * n
    /\ b.y = 3335 + (5 * n * (n + 1)) \div 2

\* C25: scenario A.  Starting puts the bird in free fall at frame 0; each
\* of the first 10 frames takes free fall at frame n to free fall at frame
\* n + 1 and stays PLAYING; so after 10 frames without a jump the state is
\* PLAYING with velocity 5.0 and the bird 27.5 below its start.
C25_ScenarioA ==
    [][/\ op' = "start" /\ gameState = "START" =>
            gameState' = "PLAYING" /\ frameCount' = 0 /\ FreeFallAt(bird', 0)
       /\ op' = "tick" /\ frameCount < 10 /\ FreeFallAt(bird, frameCount) =>
            /\ gameState' = "PLAYING"
            /\ frameCount' = frameCount + 1
            /\ FreeFallAt(bird', frameCount + 1)
            /\ frameCount' = 10 =>
                    bird'.velocity = 50 /\ bird'.y = 3335 + 275]_vars

C25_Witness ==
    /\ op = "tick"
    /\ gameState = "PLAYING"
    /\ frameCount = 10
    /\ bird.velocity = 50
    /\ bird.y = 3335 + 275

\* C26: updateHighScore(newScore) writes the store only when newScore is
\* greater than the stored best score (0 when nothing is stored) and returns
\* the greater of the two; otherwise it writes nothing and returns the
\* stored value.  Its result is what the reset caches.
C26_UpdateHighScoreContract ==
    [][op' = "resetDone" =>
        \E v \in 0..9 :
            /\ ReadsAs(stored, FALSE, v)
            /\ IF io'.arg > v
               THEN io'.writes = <<io'.arg>> /\ highScore' = io'.arg
               ELSE io'.writes = <<>> /\ highScore' = v]_vars

\* C27: in GAME_OVER the new-record text is shown exactly when the score of
\* the run that ended beats the previous best score.
C27_NewRecordShownIffBeaten ==
    gameState = "GAME_OVER" => (newRecordText <=> Gt(score, highScore))

\* C29: a started game in which no jump is made and frames keep being taken
\* reaches GAME_OVER, and GAME_OVER is left only by a reset.
C29_FallEndsGame ==
    /\ gameState = "PLAYING" ~> gameState = "GAME_OVER"
    /\ [][gameState = "GAME_OVER" =>
            gameState' = "GAME_OVER" \/ op' = "reset"]_vars

\* C30: any two consecutive pipes of the list are exactly 180 apart.
C30_PipesEvery180 ==
    \A i \in 1..(Len(pipes) - 1) : pipes[i + 1].x - pipes[i].x = 1800

\* C28: a window with a non-positive width or height is rejected when the
\* engine is constructed: no game is ever started and no frame is ever
\* taken in it.
C28_MalformedWindowRejected ==
    (window.width <= 0 \/ window.height <= 0) =>
        /\ gameState = "START"
        /\ ~interval
        /\ op \notin {"start", "tick"}

\* ---------------------------------------------------------------- C31
\* A text that is the decimal form of a non-negative integer.
IsIntegerText(text) == Len(text) > 0 /\ \A i \in 1..Len(text) : IsDigit(text[i])

\* C31: getHighScore returns 0 when the stored text is not a valid integer;
\* a malformed stored value reads like no stored value.
C31_MalformedStoredReadsAsZero ==
    [][(/\ io'.call = "getHighScore"
        /\ ~io'.readFailed
        /\ stored.present
        /\ ~IsIntegerText(stored.text)) => io'.returned = 0]_vars

\* ---------------------------------------------------------------- C32
\* C32: when the write to storage fails, updateHighScore returns the high
\* score it read (stored 10, new score 20, failing write: 10), not the new
\* score.
C32_FailedWriteReturnsPrevious ==
    [][(io'.call = "updateHighScore" /\ io'.writeFailed)
           => io'.returned = io'.read]_vars

\* ---------------------------------------------------------------- C33
\* C33: a colliding player is never left in PLAYING: whenever the state is
\* PLAYING the bird is on the screen above the ground line (0 <= y and
\* y + height <= screenHeight - groundHeight) and its hitbox overlaps no pipe.
C33_NoCollidingPlayerWhilePlaying ==
    gameState = "PLAYING" =>
        /\ 0 <= bird.y
        /\ bird.y + BIRD_HEIGHT <= SCREEN_HEIGHT - GROUND_HEIGHT
        /\ ~HitsObstacle(bird, pipes)

\* ---------------------------------------------------------------- C34
\* C34: a pipe that has been marked passed never collides with the bird in
\* any later frame: its rectangles lie strictly to the left of the bird's
\* hitbox.
C34_PassedPipeNeverCollides ==
    \A i \in 1..Len(pipes) :
        pipes[i].passed =>
            /\ ~HitsObstacle(bird, <<pipes[i]>>)
            /\ pipes[i].x + PIPE_WIDTH < bird.x + 20

\* A passed pipe is still in the list many frames after the pass, in a game
\* that goes on.
C34_Witness ==
    /\ op = "tick"
    /\ gameState = "PLAYING"
    /\ \E i \in 1..Len(pipes) :
           pipes[i].passed /\ pipes[i].x + PIPE_WIDTH < bird.x - 400

\* ---------------------------------------------------------------- C35
\* Every pipe that a frame drops from the list (its new x is below -52) was
\* marked passed in an earlier frame.
MarkedBeforeEviction ==
    [][op' = "tick" =>
        \A i \in 1..Len(pipes) :
            pipes[i].x - PIPE_SPEED < -PIPE_WIDTH => pipes[i].passed]_vars

\* The pipes a frame marks passed, by their place after the frame.
MarkedNow == {j \in 1..Len(pipes') : pipes'[j].passed /\ ~WasPassed(j)}

\* C35: no pass is lost to eviction: while the game keeps stepping, every
\* pipe is marked passed, and scored, in some frame before the frame that
\* drops it from the list; no pipe leaves the list unmarked.
C35_NoPassLostToEviction ==
    [][op' = "tick" =>
        /\ \A i \in 1..Len(pipes) :
               pipes[i].x - PIPE_SPEED < -PIPE_WIDTH => pipes[i].passed
        /\ MarkedNow # {} => score' = score + Cardinality(MarkedNow)]_vars

\* ---------------------------------------------------------------- C36
\* C36: in a 375 wide window the list never holds more than 3 pipes, however
\* long the game lasts and however often it is started, paused, resumed and
\* reset.
\* The bound holds for a reason that does not depend on the frame: pipes on
\* the list are at least 182 apart and, once there are two, lie between -52
\* and 375, a span with room for three.
C36_AtMostThreePipes ==
    /\ Len(pipes) <= 3
    /\ \A i \in 1..Len(pipes) : pipes[i].x >= -PIPE_WIDTH
    /\ \A i \in 1..(Len(pipes) - 1) : pipes[i + 1].x - pipes[i].x >= 1820
    /\ Len(pipes) >= 2 => pipes[Len(pipes)].x <= SCREEN_WIDTH

\* A game paused and resumed while three pipes are on the list.
C36_Witness ==
    /\ op = "resume"
    /\ gameState = "PLAYING"
    /\ Len(pipes) = 3

StoredBest(store) == IF store.present THEN parseInt(store.text) ELSE 0

\* C38: the stored best score never decreases: no sequence of games and
\* resets, even with failing reads, overwrites it with a lower value.
C38_StoredBestNeverDecreases ==
    [][StoredBest(stored') >= StoredBest(stored)]_vars

====
